---------------------------- MODULE Spec2Model ----------------------------
(***************************************************************************)
(* Shapelet generation and application kernels of convst                   *)
(* (convst/transformers/_multivariate_same_length.py).                     *)
(*                                                                         *)
(* Arrays are sequences (1-based); the data they hold (sample ids, channel *)
(* ids, start positions) keep the 0-based values of the source.  Shapelet  *)
(* i of the source is shapelet i+1 here.                                   *)
(***************************************************************************)
EXTENDS Integers, Sequences, FiniteSets, TLC

VARIABLES
    cfg,              \* arguments of the current M_SL_generate_shapelet call
    pc,               \* "start", "loop", "done", "failed"
    lengths,          \* per shapelet
    dilations,        \* per shapelet
    threshold,        \* per shapelet
    normalize,        \* per shapelet
    n_channels,       \* per shapelet
    channel_ids,      \* flattened buffer
    values,           \* flattened buffer
    id_samples,       \* provenance: source sample per shapelet
    start_positions,  \* provenance: start position per shapelet
    unique_dil,       \* sorted distinct dilations
    mask_sampling,    \* occupancy grid (norm, i_d, sample, channel, timestamp)
    mask_return,      \* allocated at line 128
    next_shp,         \* per dilation group: index of its next shapelet in id_shps
    drawn,            \* shapelets whose iteration took the branch of line 147
    worker_log,       \* which dilation-group worker ran which iteration, read
                      \* which grid and assigned which cell of the buffers
    rng,              \* the seeded generator: [pos, stream]
    calls,            \* number of generate calls started
    first,            \* what the first call returned (two-call runs)
    ap_pc,            \* M_SL_apply_all_shapelets: "idle", "run", "done"
    ap_n_samples,     \* series count of the tensor handed to apply
    params_shp,       \* distinct (length, dilation) pairs
    n_shp_params,     \* cumulated group sizes
    idx_shp,          \* shapelet indices ordered by group
    X_new,            \* the feature matrix: [shape, data]
    task_done,        \* (series, group) iterations that are over
    task_pc,          \* per (series, group) iteration: "todo", "no_norm",
                      \* "norm", "done"
    i_idx,            \* per iteration: position in the subset being evaluated
    strides,          \* per iteration: the strided view it works on
    X_writes          \* per cell of X_new: the iterations that assigned it

gen_vars == <<cfg, pc, lengths, dilations, threshold, normalize, n_channels,
              channel_ids, values, id_samples, start_positions, unique_dil,
              mask_sampling, mask_return, next_shp, drawn, worker_log, rng,
              calls, first>>

ap_vars == <<ap_pc, ap_n_samples, params_shp, n_shp_params, idx_shp, X_new,
             task_done, task_pc, i_idx, strides, X_writes>>

-----------------------------------------------------------------------------
(* Bounds of the model *)

MaxShapelets == 2
MaxSamples == 2
MaxFeatures == 2
SmallT == 5

-----------------------------------------------------------------------------
(* Generic array helpers *)

Min(a, b) == IF a <= b THEN a ELSE b
Max(a, b) == IF a >= b THEN a ELSE b

\* numpy.zeros(n) for an integer array
Zeros(n) == [k \in 1..n |-> 0]

\* numpy.ones(n, dtype=bool_)
Ones(n) == [k \in 1..n |-> TRUE]

RECURSIVE SumSeq(_)
SumSeq(s) == IF s = <<>> THEN 0 ELSE s[1] + SumSeq(Tail(s))

\* concatenate((zeros(1), cumsum(s)))
CumSum0(s) == [k \in 1..(Len(s) + 1) |-> SumSeq(SubSeq(s, 1, k - 1))]

RECURSIVE SortedSeq(_)
SortedSeq(S) ==
    IF S = {} THEN <<>>
    ELSE LET m == CHOOSE x \in S : \A y \in S : x <= y
         IN  <<m>> \o SortedSeq(S \ {m})

Range(s) == {s[k] : k \in DOMAIN s}


-----------------------------------------------------------------------------
(* The series tensor X and the subsequence extractor *)

\* A buffer cell holds a real number.  <<n, 0>> is the number n; <<n, q>> with
\* q > 0 is the z-normalised value n / (sqrt(q) + L * 1e-8) of a window of
\* length L (n = L*v - sum, q = L*sum of squares - sum^2).  A numerator of 0
\* is the number 0 whatever the scale.
Cell(n, q) == IF n = 0 THEN <<0, 0>> ELSE <<n, q>>
ZeroCell == Cell(0, 0)

\* numpy.zeros(n) for a float array
ZeroCells(n) == [k \in 1..n |-> ZeroCell]

\* X[s, c, t]: the tensor the model is run on.  Channel 0 of sample 0 is
\* constant zero, every other channel is a ramp of its own slope.  A read
\* outside 0..T-1 (no bounds check under numba) yields a foreign value.
XAt(s, c, t) == IF t \in 0..(cfg.T - 1) THEN (s + c) * (t + 1) ELSE -1

\* get_subsequence(X[s, c], start, length, dilation, norm, use_phase)
GetSubsequenceRaw(s, c, start, length, dilation, use_phase) ==
    [k \in 1..length |->
        IF use_phase
        THEN XAt(s, c, (start + (k - 1) * dilation) % cfg.T)
        ELSE XAt(s, c, start + (k - 1) * dilation)]

ZNormalize(v) ==
    LET L  == Len(v)
        S  == SumSeq(v)
        SQ == SumSeq([k \in 1..L |-> v[k] * v[k]])
        Q  == L * SQ - S * S
    IN  [k \in 1..L |-> Cell(L * v[k] - S, Q)]

GetSubsequence(s, c, start, length, dilation, norm, use_phase) ==
    LET v == GetSubsequenceRaw(s, c, start, length, dilation, use_phase)
    IN  IF norm THEN ZNormalize(v) ELSE [k \in 1..length |-> Cell(v[k], 0)]

-----------------------------------------------------------------------------
(* M_SL_init_random_shapelet_params *)

\* floor_divide(n_timestamps - 1, lengths - 1): the value whose log2 is the
\* upper bound of the dilation exponent.  The model keeps 2^upper_bounds[i],
\* i.e. this quotient, in place of the float upper_bounds[i].
UpperQWrongNumerator(T, length) == T \div (length - 1)
UpperQ(T, length) == (T - 1) \div (length - 1)

\* int64(2**log2(q)) on IEEE doubles: the round trip through log2 falls just
\* below q for these q, and the cast truncates.
LossyQ == {5, 9, 10, 17, 18, 19, 25, 26, 27, 28, 29, 31, 34, 36, 38}
Int64Pow2Log2(q) == IF q \in LossyQ THEN q - 1 ELSE q

\* is_prime / prime_up_to of convst.transformers._commons: 1 counts as prime
IsPrime(p) == p >= 1 /\ \A k \in 2..(p - 1) : p % k # 0
PrimeUpTo(n) == {p \in 1..n : IsPrime(p)}

SeqMax(s) == CHOOSE m \in Range(s) : \A x \in Range(s) : x <= m

\* the cut applied to the prime table for shapelet i (line 77)
ShpPrimeBoundFromMax(ub, i) == Int64Pow2Log2(SeqMax(ub))
ShpPrimeBound(ub, i) == Int64Pow2Log2(ub[i])

\* primes[primes <= int64(2**upper_bounds[i])], primes from line 72
ShpPrimes(ub, i) ==
    {p \in PrimeUpTo(Int64Pow2Log2(SeqMax(ub))) : p <= ShpPrimeBound(ub, i)}

\* floor(power(2, uniform(0, upper_bounds[i]))): every integer from 1 to
\* 2^upper_bounds[i] (the upper end of uniform's interval can be returned
\* under floating-point rounding)
UnrestrictedDilations(ub, i) == 1..ub[i]

DilationChoices(prime_scheme, ub, i) ==
    IF prime_scheme THEN ShpPrimes(ub, i) ELSE UnrestrictedDilations(ub, i)

\* zeros(int64(dot(lengths, n_channels)))
AllocValuesPerLength(ls, ncs) == ZeroCells(SumSeq(ls))
AllocValues(ls, ncs) ==
    ZeroCells(SumSeq([k \in 1..Len(ls) |-> ls[k] * ncs[k]]))

\* zeros(n_channels.sum(), dtype=int64)
AllocChannelIds(ncs) == Zeros(SumSeq(ncs))

\* every outcome of the sampler's draws for the call's arguments
SampledParams ==
    LET n == cfg.n_shapelets
    IN  {p \in [lengths    : [1..n -> cfg.sizes],
                dilations  : [1..n -> 1..(cfg.T)],
                n_channels : [1..n -> 1..cfg.max_channels],
                normalize  : [1..n -> BOOLEAN]] :
            LET ub == [i \in 1..n |-> UpperQ(cfg.T, p.lengths[i])]
            IN  \A i \in 1..n :
                    p.dilations[i] \in DilationChoices(cfg.prime_scheme, ub, i)}

-----------------------------------------------------------------------------
(* The seeded generator *)

\* seed(r_seed) fixes the sequence of raw numbers the generator hands out.
\* rng.head is what the sampler made of the first part of that sequence,
\* rng.stream the raw numbers handed out after it, rng.pos the next one.  A
\* number handed out for the first time is free; after seed() is called
\* again with the same seed the same numbers come back in the same order.
\* The numbers are remembered (rng.keep) only in runs that call generate a
\* second time: nothing else reads them back.
RawDraw(k, len) ==
    IF k <= Len(rng.stream) THEN {rng.stream[k] % len} ELSE 0..(len - 1)

\* choice(arr): the raw numbers that pick an entry of arr.  Of the fresh
\* raw numbers that pick equal entries the smallest stands for all.
ChoiceDraw(k, arr) ==
    {r \in RawDraw(k, Len(arr)) :
        k <= Len(rng.stream) \/ \A q \in 0..(r - 1) : arr[q + 1] # arr[r + 1]}

\* the stream after the draws raws were handed out from position rng.pos on
Recorded(raws) ==
    IF rng.keep
    THEN SubSeq(rng.stream, 1, rng.pos - 1) \o
         [k \in 1..Max(Len(raws), Len(rng.stream) - rng.pos + 1) |->
            IF rng.pos + k - 1 <= Len(rng.stream)
            THEN rng.stream[rng.pos + k - 1] ELSE raws[k]]
    ELSE rng.stream

-----------------------------------------------------------------------------
(* M_SL_generate_shapelet *)

NShp == Len(lengths)

\* a1, a2 (lines 130-131)
ValuesOffset ==
    CumSum0([k \in 1..NShp |-> n_channels[k] * lengths[k]])
ChannelOffset == CumSum0(n_channels)

\* where(dilations == unique_dil[i_d])[0]
IdShps(i_d) ==
    SelectSeq([k \in 1..NShp |-> k],
              LAMBDA k : dilations[k] = unique_dil[i_d])

\* X[:d_shape] on an axis of n entries: the number of entries kept
SliceEnd(d_shape, n) ==
    IF d_shape >= 0 THEN Min(d_shape, n) ELSE Max(n + d_shape, 0)

\* d_shape (line 142)
DShapeAlwaysT(use_phase, T, length, dilation) == T
DShape(use_phase, T, length, dilation) ==
    IF use_phase THEN T ELSE T - (length - 1) * dilation

\* mask_dil = mask_sampling[norm, i_d] (line 143): the grid worker i_d uses
\* for a shapelet of normalisation mode norm
MaskDilByNorm(norm, i_d) == <<norm, 1>>
MaskDil(norm, i_d) == <<norm, i_d>>

\* mask_dil[:, :, :d_shape].sum(axis=1)[s, t]
AvailableChannels(norm, i_d, s, t) ==
    LET grid == MaskDil(norm, i_d)
    IN  Cardinality({c \in 0..(cfg.n_features - 1) :
                        mask_sampling[<<grid[1], grid[2], s, c, t>>]})

\* ... >= _n_channels * alpha, alpha = alpha[1] / alpha[2]
AdmissibleAnyCount(avail, nch, alpha) == avail * alpha[2] >= alpha[1]
Admissible(avail, nch, alpha) == avail * alpha[2] >= nch * alpha[1]

\* where(...) of line 146: the (sample, position) pairs in row-major order
IMask(i_shp, i_d) ==
    LET norm  == IF normalize[i_shp] THEN 1 ELSE 0
        width == SliceEnd(DShape(cfg.use_phase, cfg.T, lengths[i_shp],
                                 dilations[i_shp]), cfg.T)
    IN  SelectSeq([k \in 1..(cfg.n_samples * width) |->
                        <<(k - 1) \div width, (k - 1) % width>>],
                  LAMBDA e : Admissible(AvailableChannels(norm, i_d, e[1], e[2]),
                                        n_channels[i_shp], cfg.alpha))

\* i_mask[0]
SamplesOf(i_mask) == [k \in DOMAIN i_mask |-> i_mask[k][1]]

\* i_mask[1][i_mask[0] == id_sample]
PositionsOf(i_mask, id_sample) ==
    SelectSeq(i_mask, LAMBDA e : e[1] = id_sample)

\* line 147
HasCandidate(i_mask) == Len(i_mask) > 0

\* choice(arange(0, n_features), k, replace=False): raw number -> k distinct
\* channels, in draw order
RECURSIVE PickDistinct(_, _, _)
PickDistinct(pool, k, raw) ==
    IF k = 0 THEN <<>>
    ELSE LET j == (raw % Len(pool)) + 1
         IN  <<pool[j]>> \o
             PickDistinct(SubSeq(pool, 1, j - 1) \o SubSeq(pool, j + 1, Len(pool)),
                          k - 1, raw \div Len(pool))

RECURSIVE NArrangements(_, _)
NArrangements(n, k) == IF k = 0 THEN 1 ELSE n * NArrangements(n - 1, k - 1)

\* buf[a:b] = data  (a, b 0-based offsets)
WriteSlice(buf, a, b, data) ==
    [k \in DOMAIN buf |-> IF a < k /\ k <= b /\ (k - a) \in DOMAIN data
                          THEN data[k - a] ELSE buf[k]]

\* _values of lines 154-164: one row per selected channel
ShapeletValues(id_sample, chans, start, length, dilation, norm) ==
    LET Row(k) == GetSubsequence(id_sample, chans[k], start, length, dilation,
                                 norm, cfg.use_phase)
    IN  [j \in 1..(Len(chans) * length) |->
            Row(((j - 1) \div length) + 1)[((j - 1) % length) + 1]]

\* nothing run, read or assigned yet (the arrays of lines 118-128 are new)
EmptyLog(p) ==
    [proc        |-> [i \in 1..Len(p.lengths) |-> <<>>],
     grid        |-> {},
     values      |-> [k \in DOMAIN AllocValues(p.lengths, p.n_channels) |-> {}],
     channel_ids |-> [k \in DOMAIN AllocChannelIds(p.n_channels) |-> {}],
     prov        |-> [i \in 1..Len(p.lengths) |-> {}]]

\* buf[a:b] = ... by worker w, as seen by the cells
LogSlice(L, a, b, w) ==
    [k \in DOMAIN L |-> IF a < k /\ k <= b THEN L[k] \cup {w} ELSE L[k]]

\* the iteration of shapelet i_shp run by worker i_d: the grid of lines
\* 143-146 read; id_samples[i_shp], start_positions[i_shp] assigned when
\* prov (lines 149-152); the slices of lines 166-167 assigned when slices
LogIteration(L, i_shp, i_d, prov, slices) ==
    [proc        |-> [L.proc EXCEPT ![i_shp] = Append(@, i_d)],
     grid        |-> L.grid \cup
                        {<<i_d, MaskDil(IF normalize[i_shp] THEN 1 ELSE 0,
                                        i_d)>>},
     values      |-> IF slices
                     THEN LogSlice(L.values, ValuesOffset[i_shp],
                                   ValuesOffset[i_shp + 1], i_d)
                     ELSE L.values,
     channel_ids |-> IF slices
                     THEN LogSlice(L.channel_ids, ChannelOffset[i_shp],
                                   ChannelOffset[i_shp + 1], i_d)
                     ELSE L.channel_ids,
     prov        |-> IF prov THEN [L.prov EXCEPT ![i_shp] = @ \cup {i_d}]
                     ELSE L.prov]

\* what the call hands back (lines 169-171)
Returned ==
    <<values, lengths, dilations, threshold, normalize, n_channels,
      channel_ids, id_samples, start_positions>>

-----------------------------------------------------------------------------
(* Arguments of a call *)

\* alpha and p_norm are fractions <<numerator, denominator>>; the tensor is
\* XAt for the shape (n_samples, n_features, T) given here.

\* one shapelet, valid arguments over their ranges
SingleConfigs ==
    [T : {SmallT}, n_samples : {MaxSamples}, n_features : {MaxFeatures},
     n_shapelets : {1}, sizes : {{2, 3}}, alpha : {<<1, 2>>},
     p_norm : {<<1, 2>>}, use_phase : BOOLEAN,
     max_channels : 1..MaxFeatures, prime_scheme : BOOLEAN]

\* one shapelet, one argument out of range: a length equal to the timestamp
\* count, max_channels above the channel count, alpha above 1 or below 0
BadConfigs ==
    LET Base == [T |-> SmallT, n_samples |-> 1, n_features |-> MaxFeatures,
                 n_shapelets |-> 1, sizes |-> {2, 3}, alpha |-> <<1, 1>>,
                 p_norm |-> <<1, 1>>, use_phase |-> FALSE,
                 max_channels |-> MaxFeatures, prime_scheme |-> FALSE]
    IN  {[Base EXCEPT !.sizes = {SmallT}],
         [Base EXCEPT !.sizes = {SmallT}, !.prime_scheme = TRUE],
         [Base EXCEPT !.max_channels = MaxFeatures + 1],
         [Base EXCEPT !.max_channels = MaxFeatures + 1, !.alpha = <<1, 2>>],
         [Base EXCEPT !.alpha = <<2, 1>>],
         [Base EXCEPT !.alpha = <<-1, 1>>]}

\* several shapelets on a small tensor; with alpha = 2 a two-channel
\* shapelet has no admissible candidate and a one-channel shapelet has
ManyConfigs ==
    [T : {4}, n_samples : {1}, n_features : {2},
     n_shapelets : 2..MaxShapelets, sizes : {{2, 3}},
     alpha : {<<1, 1>>, <<2, 1>>}, p_norm : {<<0, 1>>},
     use_phase : {FALSE}, max_channels : {2}, prime_scheme : {FALSE}]

\* the scenario T = 17 with lengths 5 and 9 under the prime scheme
PrimeConfigs ==
    [T : {17}, n_samples : {1}, n_features : {1}, n_shapelets : {2},
     sizes : {{5, 9}}, alpha : {<<1, 1>>}, p_norm : {<<0, 1>>},
     use_phase : {FALSE}, max_channels : {1}, prime_scheme : {TRUE}]

Configs == SingleConfigs \cup BadConfigs \cup ManyConfigs \cup PrimeConfigs

\* section 7 (a) of the specification: what a call must be rejected for
ConfigError(c) ==
    \/ \E l \in c.sizes : l >= c.T
    \/ c.max_channels > c.n_features
    \/ c.alpha[1] < 0 \/ c.alpha[1] > c.alpha[2]

-----------------------------------------------------------------------------
(* State machine of one call *)

\* the state on entry of M_SL_generate_shapelet
Entry(c) ==
    /\ cfg = c
    /\ pc = "start"
    /\ lengths = <<>> /\ dilations = <<>> /\ threshold = <<>>
    /\ normalize = <<>> /\ n_channels = <<>>
    /\ channel_ids = <<>> /\ values = <<>>
    /\ id_samples = <<>> /\ start_positions = <<>>
    /\ unique_dil = <<>>
    /\ mask_sampling = <<>>
    /\ mask_return = <<>>
    /\ next_shp = <<>>
    /\ drawn = {}
    /\ worker_log = <<>>

\* apply has not been called
ApplyIdle ==
    /\ ap_pc = "idle"
    /\ ap_n_samples = 0
    /\ params_shp = <<>> /\ n_shp_params = <<>> /\ idx_shp = <<>>
    /\ X_new = [shape |-> <<0, 0>>, data |-> <<>>]
    /\ task_done = {}
    /\ task_pc = <<>> /\ i_idx = <<>> /\ strides = <<>>
    /\ X_writes = <<>>

NoRng(keep) == [head |-> <<>>, stream |-> <<>>, pos |-> 1, keep |-> keep]

Init ==
    /\ \E c \in Configs : Entry(c)
    /\ rng = NoRng(FALSE)
    /\ calls = 1
    /\ first = <<>>
    /\ ApplyIdle

\* random(size=n) < p_norm
NormalizeOutcomes(p_norm) ==
    IF p_norm[1] <= 0 THEN {FALSE}
    ELSE IF p_norm[1] >= p_norm[2] THEN {TRUE} ELSE BOOLEAN

\* Lines 114-131: seed, M_SL_init_random_shapelet_params, provenance arrays,
\* unique_dil, masks.  The sampler's draws come first in the seeded sequence.
SampleParams ==
    /\ pc = "start"
    /\ \E p \in SampledParams :
        /\ \A i \in 1..cfg.n_shapelets :
                p.normalize[i] \in NormalizeOutcomes(cfg.p_norm)
        /\ rng.head \in {<<>>, <<p>>}
        /\ rng' = [rng EXCEPT !.head = IF rng.keep THEN <<p>> ELSE <<>>]
        /\ lengths' = p.lengths
        /\ dilations' = p.dilations
        /\ n_channels' = p.n_channels
        /\ normalize' = p.normalize
        /\ threshold' = Zeros(cfg.n_shapelets)
        /\ channel_ids' = AllocChannelIds(p.n_channels)
        /\ values' = AllocValues(p.lengths, p.n_channels)
        /\ id_samples' = Zeros(cfg.n_shapelets)
        /\ start_positions' = Zeros(cfg.n_shapelets)
        /\ unique_dil' = SortedSeq(Range(p.dilations))
        /\ mask_sampling' =
              [e \in (0..1) \X (1..Cardinality(Range(p.dilations)))
                     \X (0..(cfg.n_samples - 1)) \X (0..(cfg.n_features - 1))
                     \X (0..(cfg.T - 1)) |-> TRUE]
        /\ mask_return' = Ones(cfg.n_shapelets)
        /\ next_shp' = [g \in 1..Cardinality(Range(p.dilations)) |-> 1]
        /\ worker_log' = EmptyLog(p)
    /\ pc' = "loop"
    /\ UNCHANGED <<cfg, drawn, calls, first>>
    /\ UNCHANGED ap_vars

\* One iteration of the loop of line 136, run by the worker of dilation
\* group i_d (the prange of line 133 runs the groups in any interleaving).
GenShapelet(i_d) ==
    /\ pc = "loop"
    /\ i_d \in DOMAIN next_shp
    /\ next_shp[i_d] <= Len(IdShps(i_d))
    /\ LET i_shp  == IdShps(i_d)[next_shp[i_d]]
           nch    == n_channels[i_shp]
           i_mask == IMask(i_shp, i_d)
           a1     == ValuesOffset
           a2     == ChannelOffset
       IN  IF HasCandidate(i_mask)
           THEN \E r1 \in ChoiceDraw(rng.pos, SamplesOf(i_mask)) :
                LET id_sample == i_mask[r1 + 1][1]
                    cand      == PositionsOf(i_mask, id_sample)
                IN  \E r2 \in ChoiceDraw(rng.pos + 1, cand) :
                    LET start == cand[r2 + 1][2]
                    IN  /\ id_samples' = [id_samples EXCEPT ![i_shp] = id_sample]
                        /\ start_positions' =
                              [start_positions EXCEPT ![i_shp] = start]
                        /\ IF nch > cfg.n_features
                           THEN \* choice(..., replace=False) raises ValueError
                                /\ pc' = "failed"
                                /\ rng' = [rng EXCEPT
                                      !.stream = Recorded(<<r1, r2>>),
                                      !.pos = rng.pos + 2]
                                /\ worker_log' = LogIteration(worker_log,
                                                    i_shp, i_d, TRUE, FALSE)
                                /\ UNCHANGED <<values, channel_ids, drawn,
                                               next_shp>>
                           ELSE \E r3 \in RawDraw(rng.pos + 2,
                                           NArrangements(cfg.n_features, nch)) :
                                LET chans ==
                                      PickDistinct(
                                        [k \in 1..cfg.n_features |-> k - 1],
                                        nch, r3)
                                IN  /\ values' = WriteSlice(values,
                                          a1[i_shp], a1[i_shp + 1],
                                          ShapeletValues(id_sample, chans,
                                              start, lengths[i_shp],
                                              dilations[i_shp],
                                              normalize[i_shp]))
                                    /\ channel_ids' = WriteSlice(channel_ids,
                                          a2[i_shp], a2[i_shp + 1], chans)
                                    /\ rng' = [rng EXCEPT
                                          !.stream = Recorded(<<r1, r2, r3>>),
                                          !.pos = rng.pos + 3]
                                    /\ drawn' = drawn \cup {i_shp}
                                    /\ worker_log' = LogIteration(
                                          worker_log, i_shp, i_d, TRUE, TRUE)
                                    /\ next_shp' =
                                          [next_shp EXCEPT ![i_d] = @ + 1]
                                    /\ pc' = pc
           ELSE /\ next_shp' = [next_shp EXCEPT ![i_d] = @ + 1]
                /\ worker_log' = LogIteration(worker_log, i_shp, i_d,
                                              FALSE, FALSE)
                /\ UNCHANGED <<pc, values, channel_ids, id_samples,
                               start_positions, drawn, rng>>
    /\ UNCHANGED <<cfg, lengths, dilations, threshold, normalize, n_channels,
                   unique_dil, mask_sampling, mask_return, calls, first>>
    /\ UNCHANGED ap_vars

\* Lines 169-171, once every dilation group is through
Return ==
    /\ pc = "loop"
    /\ \A g \in DOMAIN next_shp : next_shp[g] > Len(IdShps(g))
    /\ pc' = "done"
    /\ UNCHANGED <<cfg, lengths, dilations, threshold, normalize, n_channels,
                   channel_ids, values, id_samples, start_positions,
                   unique_dil, mask_sampling, mask_return, next_shp, drawn,
                   worker_log, rng, calls, first>>
    /\ UNCHANGED ap_vars

Next ==
    \/ SampleParams
    \/ \E i_d \in 1..MaxShapelets : GenShapelet(i_d)
    \/ Return

vars == <<gen_vars, ap_vars>>

Spec == Init /\ [][Next]_vars

-----------------------------------------------------------------------------
(* Properties of one call *)

Sampled == pc \in {"loop", "done"}

\* the dilation group of shapelet i
GroupOf(i) == CHOOSE g \in DOMAIN unique_dil : unique_dil[g] = dilations[i]

\* shapelets whose loop iteration is over
Processed ==
    {i \in 1..NShp : \E g \in DOMAIN next_shp :
        \E k \in 1..(next_shp[g] - 1) :
            k <= Len(IdShps(g)) /\ IdShps(g)[k] = i}

ValuesSlice(i) ==
    SubSeq(values, ValuesOffset[i] + 1, ValuesOffset[i + 1])
ChannelSlice(i) ==
    SubSeq(channel_ids, ChannelOffset[i] + 1, ChannelOffset[i + 1])

\* C1: once the parameters are sampled, consecutive entries of the two
\* prefix-sum offset tables differ by channel_count*length and by
\* channel_count, the tables end at the sizes of the values and channel_ids
\* buffers, and so every shapelet's slice lies inside its buffer.
C1_BufferLayout ==
    Sampled =>
        /\ Len(ValuesOffset) = NShp + 1
        /\ Len(ChannelOffset) = NShp + 1
        /\ \A i \in 1..NShp :
            /\ ValuesOffset[i + 1] - ValuesOffset[i]
                    = n_channels[i] * lengths[i]
            /\ ChannelOffset[i + 1] - ChannelOffset[i] = n_channels[i]
            /\ 0 <= ValuesOffset[i] /\ ValuesOffset[i + 1] <= Len(values)
            /\ 0 <= ChannelOffset[i]
            /\ ChannelOffset[i + 1] <= Len(channel_ids)
        /\ ValuesOffset[NShp + 1] = Len(values)
        /\ ChannelOffset[NShp + 1] = Len(channel_ids)

\* a returned set of two populated shapelets of different lengths, one of
\* them on two channels
C1_Witness ==
    /\ pc = "done"
    /\ NShp = 2
    /\ drawn = {1, 2}
    /\ lengths[1] # lengths[2]
    /\ n_channels[1] = 2 /\ n_channels[2] = 1

\* C2: without phase invariance the start position recorded for a populated
\* shapelet is between 0 and T-(L-1)*d-1, every index start+k*d (k < L)
\* handed to the extractor is below T, and no candidate position of a
\* shapelet still to be drawn is T-(L-1)*d or more.
C2_StartInRange ==
    (Sampled /\ ~cfg.use_phase) =>
        /\ \A i \in drawn :
            /\ 0 <= start_positions[i]
            /\ start_positions[i]
                    <= cfg.T - (lengths[i] - 1) * dilations[i] - 1
            /\ \A k \in 0..(lengths[i] - 1) :
                    start_positions[i] + k * dilations[i] < cfg.T
        /\ \A i \in (1..NShp) \ Processed :
            \A e \in Range(IMask(i, GroupOf(i))) :
                e[2] < cfg.T - (lengths[i] - 1) * dilations[i]

\* a populated shapelet of dilation 2 drawn at the last valid start
C2_Witness ==
    /\ pc = "done" /\ ~cfg.use_phase
    /\ \E i \in drawn :
        /\ dilations[i] = 2
        /\ start_positions[i] > 0
        /\ start_positions[i] = cfg.T - (lengths[i] - 1) * dilations[i] - 1

\* C4: every populated shapelet has marked the positions it was drawn from
\* unavailable in the occupancy grid of its (normalization, dilation) group:
\* the grid differs from the all-available grid at the shapelet's sample,
\* channels and start position.
C4_OccupancyUpdated ==
    \A i \in drawn :
        \E c \in Range(ChannelSlice(i)) :
            ~mask_sampling[<<IF normalize[i] THEN 1 ELSE 0, GroupOf(i),
                             id_samples[i], c, start_positions[i]>>]

\* C5: a call whose arguments are a configuration error never gets past its
\* entry except by failing, and has made no draw.
C5_FailFast ==
    ConfigError(cfg) => (pc \in {"start", "failed"} /\ rng.pos = 1 /\ NShp = 0)

\* C8: under the prime scheme every dilation is 1 or a prime and is at most
\* 2^upper of its own shapelet, floor((T-1)/(length-1)); for T = 17 and
\* length 5 it is 1, 2 or 3.
C8_PrimeDilations ==
    (Sampled /\ cfg.prime_scheme) =>
        \A i \in 1..NShp :
            /\ dilations[i] >= 1
            /\ \A k \in 2..(dilations[i] - 1) : dilations[i] % k # 0
            /\ dilations[i] <= (cfg.T - 1) \div (lengths[i] - 1)
            /\ (cfg.T = 17 /\ lengths[i] = 5) => dilations[i] \in {1, 2, 3}

\* T = 17: a shapelet of length 5 with dilation 3 beside one of length 9
C8_Witness ==
    /\ pc = "done" /\ cfg.prime_scheme /\ cfg.T = 17
    /\ lengths = <<5, 9>> /\ dilations = <<3, 2>>

\* C10: under the unrestricted scheme every shapelet of admissible length
\* (2 <= length < T) has 1 <= dilation <= floor((T-1)/(length-1)), so
\* (length-1)*dilation <= T-1 and the range of valid starts without phase
\* invariance, T-(length-1)*dilation, is at least 1.
C10_UnrestrictedDilations ==
    (Sampled /\ ~cfg.prime_scheme) =>
        \A i \in 1..NShp :
            (2 <= lengths[i] /\ lengths[i] < cfg.T) =>
                /\ 1 <= dilations[i]
                /\ dilations[i] <= (cfg.T - 1) \div (lengths[i] - 1)
                /\ (lengths[i] - 1) * dilations[i] <= cfg.T - 1
                /\ cfg.T - (lengths[i] - 1) * dilations[i] >= 1

\* a populated shapelet of length 3 at the largest dilation its length allows
C10_Witness ==
    /\ pc = "done" /\ ~cfg.prime_scheme /\ ~cfg.use_phase
    /\ \E i \in drawn :
        /\ lengths[i] = 3 /\ dilations[i] >= 2
        /\ (lengths[i] - 1) * dilations[i] = cfg.T - 1

\* no (sample, start position) pair of shapelet i has channel_count*alpha
\* available channels
NoCandidate(i) ==
    \A s \in 0..(cfg.n_samples - 1) :
        \A t \in 0..(DShape(cfg.use_phase, cfg.T, lengths[i], dilations[i]) - 1) :
            AvailableChannels(IF normalize[i] THEN 1 ELSE 0, GroupOf(i), s, t)
                * cfg.alpha[2] < n_channels[i] * cfg.alpha[1]

DefaultSlices(i) ==
    /\ \A k \in DOMAIN ValuesSlice(i) : ValuesSlice(i)[k] = ZeroCell
    /\ \A k \in DOMAIN ChannelSlice(i) : ChannelSlice(i)[k] = 0
    /\ id_samples[i] = 0
    /\ start_positions[i] = 0

\* C6: the loop iteration of a shapelet without admissible candidate changes
\* no buffer and no provenance entry and leaves the call running; such a
\* shapelet's values and channel_ids slices are all zero and its provenance
\* is at its initial value at every moment; and the call never fails at a
\* shapelet without candidate.
C6_SkipLeavesDefault ==
    /\ [](Sampled => \A i \in 1..NShp : NoCandidate(i) => DefaultSlices(i))
    /\ [](pc = "failed" =>
            \E g \in DOMAIN next_shp :
                /\ next_shp[g] <= Len(IdShps(g))
                /\ ~NoCandidate(IdShps(g)[next_shp[g]]))
    /\ [][\A g \in DOMAIN next_shp :
            (/\ pc = "loop"
             /\ next_shp[g] <= Len(IdShps(g))
             /\ NoCandidate(IdShps(g)[next_shp[g]])
             /\ next_shp' # next_shp
             /\ next_shp' = [next_shp EXCEPT ![g] = @ + 1])
            => /\ values' = values
               /\ channel_ids' = channel_ids
               /\ id_samples' = id_samples
               /\ start_positions' = start_positions
               /\ pc' = "loop"]_vars

\* a finished call in which one shapelet was skipped for want of a candidate
\* and another one, processed after it, holds non-zero values
C6_Witness ==
    /\ pc = "done"
    /\ \E i, j \in 1..NShp :
        /\ i < j
        /\ NoCandidate(i) /\ i \notin drawn /\ DefaultSlices(i)
        /\ j \in drawn
        /\ \E k \in DOMAIN ValuesSlice(j) : ValuesSlice(j)[k] # ZeroCell

-----------------------------------------------------------------------------
(* The workers of the dilation groups *)

\* C12: the iteration of a shapelet is run at most once, by the worker of
\* the group of its dilation, and exactly once when the call returns; the
\* shapelets a worker is through are the leading ones of its group, in
\* their order; a grid (normalisation mode, dilation group) is used by one
\* worker only; no cell of values or channel_ids and no provenance entry is
\* assigned by two workers.
C12_GroupSerialised ==
    pc \in {"loop", "done", "failed"} =>
        /\ \A i \in 1..NShp :
                /\ Len(worker_log.proc[i]) <= 1
                /\ \A k \in DOMAIN worker_log.proc[i] :
                        /\ worker_log.proc[i][k] \in DOMAIN unique_dil
                        /\ unique_dil[worker_log.proc[i][k]] = dilations[i]
                /\ pc = "done" => Len(worker_log.proc[i]) = 1
        /\ pc # "failed" =>
                \A g \in DOMAIN unique_dil :
                    {i \in 1..NShp : worker_log.proc[i] = <<g>>}
                        = {i \in 1..NShp :
                              /\ dilations[i] = unique_dil[g]
                              /\ Cardinality({j \in 1..i :
                                    dilations[j] = unique_dil[g]})
                                        < next_shp[g]}
        /\ \A x, y \in worker_log.grid : x[2] = y[2] => x[1] = y[1]
        /\ \A k \in DOMAIN values : Cardinality(worker_log.values[k]) <= 1
        /\ \A k \in DOMAIN channel_ids :
                Cardinality(worker_log.channel_ids[k]) <= 1
        /\ \A i \in 1..NShp : Cardinality(worker_log.prov[i]) <= 1

\* a call returns after the workers of two dilation groups each ran one
\* shapelet, read their grids and assigned their slices
C12_Witness ==
    /\ pc = "done"
    /\ NShp = 2 /\ Len(unique_dil) = 2
    /\ drawn = {1, 2}
    /\ Cardinality(worker_log.grid) = 2
    /\ \E k1, k2 \in DOMAIN values :
            worker_log.values[k1] = {1} /\ worker_log.values[k2] = {2}
    /\ \E k1, k2 \in DOMAIN channel_ids :
            worker_log.channel_ids[k1] = {1} /\ worker_log.channel_ids[k2] = {2}
    /\ \E i, j \in 1..NShp :
            worker_log.prov[i] = {1} /\ worker_log.prov[j] = {2}

-----------------------------------------------------------------------------
(* Two calls with the same seed *)

\* arguments of the runs that call generate twice
TwiceConfigs ==
    [T : {4}, n_samples : {1}, n_features : 1..MaxFeatures,
     n_shapelets : {2}, sizes : {{2, 3}},
     alpha : {<<1, 1>>, <<2, 1>>}, p_norm : {<<0, 1>>},
     use_phase : {FALSE}, max_channels : {1}, prime_scheme : {FALSE}]

InitTwice ==
    /\ \E c \in TwiceConfigs : Entry(c)
    /\ rng = NoRng(TRUE)
    /\ calls = 1
    /\ first = <<>>
    /\ ApplyIdle

\* The caller keeps what the first call returned and calls generate again
\* with the same seed and the same tensor; alpha is the same or 1.
\* seed(r_seed) puts the generator back at the start of its sequence.
CallAgain ==
    /\ pc = "done"
    /\ calls = 1
    /\ first' = [cfg |-> cfg, ret |-> Returned, drawn |-> drawn]
    /\ calls' = 2
    /\ rng' = [rng EXCEPT !.pos = 1]
    /\ \E a \in {cfg.alpha, <<1, 1>>} :
        /\ cfg' = [cfg EXCEPT !.alpha = a]
        /\ pc' = "start"
        /\ lengths' = <<>> /\ dilations' = <<>> /\ threshold' = <<>>
        /\ normalize' = <<>> /\ n_channels' = <<>>
        /\ channel_ids' = <<>> /\ values' = <<>>
        /\ id_samples' = <<>> /\ start_positions' = <<>>
        /\ unique_dil' = <<>>
        /\ mask_sampling' = <<>>
        /\ mask_return' = <<>>
        /\ next_shp' = <<>>
        /\ drawn' = {}
        /\ worker_log' = <<>>
    /\ UNCHANGED ap_vars

NextTwice == Next \/ CallAgain

SpecTwice == InitTwice /\ [][NextTwice]_vars

SecondDone == calls = 2 /\ pc = "done"

\* C3: a second call with the same seed and the same arguments returns the
\* buffers and the provenance the first call returned, whatever the order
\* in which the dilation groups ran in either call.
C3_Deterministic ==
    (SecondDone /\ cfg = first.cfg) => Returned = first.ret

\* C7: what a call returns tells which shapelets were skipped: two calls
\* that return the same buffers and provenance skipped the same shapelets.
C7_SkippedCountable ==
    (SecondDone /\ Returned = first.ret) => drawn = first.drawn

-----------------------------------------------------------------------------
(* M_SL_apply_all_shapelets *)

\* n_features (line 213)
NFeat == 3

\* _combinations_1d(lengths, dilations): the distinct (length, dilation)
\* pairs present, ordered by length, then dilation
RECURSIVE SortedPairs(_)
SortedPairs(S) ==
    IF S = {} THEN <<>>
    ELSE LET m == CHOOSE x \in S : \A y \in S :
                    x[1] < y[1] \/ (x[1] = y[1] /\ x[2] <= y[2])
         IN  <<m>> \o SortedPairs(S \ {m})

Combinations1d(ls, ds) == SortedPairs({<<ls[k], ds[k]>> : k \in DOMAIN ls})

\* where((lengths == _length) & (dilations == _dilation))[0]
IxShapelets(pair) ==
    SelectSeq([k \in 1..NShp |-> k],
              LAMBDA k : lengths[k] = pair[1] /\ dilations[k] = pair[2])

RECURSIVE ConcatAll(_)
ConcatAll(ss) == IF ss = <<>> THEN <<>> ELSE ss[1] \o ConcatAll(Tail(ss))

\* a cell of the feature matrix: zero, or one of the three features of
\* shapelet i_shp on series i_sample, named by the computation that made it
\* (kind, series, shapelet, view the shapelet was matched against)
ZeroFeature == <<"zero", 0, 0, "">>

\* zeros((n_samples, n_features * n_shapelets))
AllocXNewPerShapelet(n_s, n_shp) ==
    [shape |-> <<n_s, n_shp>>,
     data  |-> [r \in 1..n_s |-> [c \in 1..n_shp |-> ZeroFeature]]]
AllocXNew(n_s, n_shp) ==
    [shape |-> <<n_s, NFeat * n_shp>>,
     data  |-> [r \in 1..n_s |-> [c \in 1..(NFeat * n_shp) |-> ZeroFeature]]]

\* apply_one_shapelet_one_sample_multivariate(strides[_channels], _values,
\* threshold[i_shp]): minimum distance, its position, occurrence count
ApplyOneShapelet(i_sample, i_shp, view) ==
    <<(<<"min", i_sample, i_shp, view>>),
      (<<"argmin", i_sample, i_shp, view>>),
      (<<"count", i_sample, i_shp, view>>)>>

\* _idx_shp of group g (line 253)
GroupShapelets(g) ==
    SubSeq(idx_shp, n_shp_params[g] + 1, n_shp_params[g + 1])

\* n_features * i_shp, the column before the block of shapelet i (lines 263
\* and 284; i_shp is 0-based in the source, so it is i - 1 here)
ColumnStartUnscaled(i) == i - 1
ColumnStart(i) == NFeat * (i - 1)

\* columns n_features*i_shp .. n_features*i_shp + n_features - 1 of the
\* source, 1-based here
ColumnBlock(i) == (ColumnStart(i) + 1)..(ColumnStart(i) + NFeat)

\* X_new[i_sample, 3*i_shp : 3*i_shp + 3] = feats
WriteFeatures(X, i_sample, i, feats) ==
    [X EXCEPT !.data[i_sample] =
        [c \in DOMAIN X.data[i_sample] |->
            IF c \in ColumnBlock(i)
            THEN feats[c - ColumnStart(i)] ELSE X.data[i_sample][c]]]

\* the same assignment, as seen by the cells: iteration t has assigned the
\* cells of the block of shapelet i in row i_sample
LogWrite(W, i_sample, i, t) ==
    [W EXCEPT ![i_sample] =
        [c \in DOMAIN W[i_sample] |->
            IF c \in ColumnBlock(i)
            THEN Append(W[i_sample][c], t) ELSE W[i_sample][c]]]

\* the (series, parameter group) iterations of lines 243-245
Tasks == (1..ap_n_samples) \X (1..Len(params_shp))

\* _idx_no_norm (line 255) and _idx_norm (line 268) of group g
IdxNoNorm(g) == SelectSeq(GroupShapelets(g), LAMBDA i : ~normalize[i])
IdxNorm(g) == SelectSeq(GroupShapelets(g), LAMBDA i : normalize[i])

\* generate_strides_2D(X[i_sample], _length, _dilation, use_phase): the
\* windows of one series for one (length, dilation) pair, an array of the
\* iteration's own; normalized counts the in-place normalisations it went
\* through and by names the iterations that wrote into it
GenerateStrides2D(i_sample, pair) ==
    [of |-> <<i_sample, pair[1], pair[2]>>, normalized |-> 0, by |-> {}]

\* lines 271-275: every window of the view replaced by its z-normalisation
NormalizeStrides(v, t) ==
    [v EXCEPT !.normalized = @ + 1, !.by = @ \cup {t}]

\* what strides[_channels] holds when a shapelet is matched against it
ViewOf(v) ==
    IF v.normalized = 0 THEN "raw"
    ELSE IF v.normalized = 1 THEN "norm" ELSE "renorm"

\* line 269: if _idx_norm.shape[0] > 0
NeedsNormalizationAlways(g) == TRUE
NeedsNormalization(g) == Len(IdxNorm(g)) > 0

\* where an iteration stands when the loop of line 256 is at position k
PcNoNorm(g, k) ==
    IF k <= Len(IdxNoNorm(g)) THEN "no_norm"
    ELSE IF NeedsNormalization(g) THEN "normalize" ELSE "done"

\* where an iteration stands when the loop of line 277 is at position k
PcNorm(g, k) == IF k <= Len(IdxNorm(g)) THEN "norm" ELSE "done"

\* Lines 209-242: the caller hands the returned shapelet set and a tensor
\* of any series count to apply; grouping tables and the zero matrix.
ApplyStart ==
    /\ pc = "done"
    /\ ap_pc = "idle"
    /\ LET ps == Combinations1d(lengths, dilations)
       IN  /\ params_shp' = ps
           /\ idx_shp' = ConcatAll([g \in 1..Len(ps) |-> IxShapelets(ps[g])])
           /\ n_shp_params' =
                CumSum0([g \in 1..Len(ps) |-> Len(IxShapelets(ps[g]))])
           /\ \E n_s \in 1..MaxSamples :
                /\ ap_n_samples' = n_s
                /\ X_new' = AllocXNew(n_s, NShp)
                /\ X_writes' = [r \in 1..n_s |->
                                  [c \in 1..(NFeat * NShp) |-> <<>>]]
                /\ task_pc' = [t \in (1..n_s) \X (1..Len(ps)) |-> "todo"]
                /\ i_idx' = [t \in (1..n_s) \X (1..Len(ps)) |-> 0]
                /\ strides' = [t \in (1..n_s) \X (1..Len(ps)) |-> <<>>]
    /\ ap_pc' = "run"
    /\ UNCHANGED task_done
    /\ UNCHANGED gen_vars

\* The iterations of lines 243-287 run in any interleaving (prange over the
\* series and over the parameter groups); each of the four actions below is
\* one step of the iteration for series i_sample and parameter group g.

\* lines 246-255: the strided view of the series for the group's pair
GenerateStrides(i_sample, g) ==
    LET t == <<i_sample, g>>
    IN  /\ ap_pc = "run"
        /\ t \in Tasks
        /\ task_pc[t] = "todo"
        /\ strides' = [strides EXCEPT
                          ![t] = GenerateStrides2D(i_sample, params_shp[g])]
        /\ i_idx' = [i_idx EXCEPT ![t] = 1]
        /\ task_pc' = [task_pc EXCEPT ![t] = PcNoNorm(g, 1)]
        /\ task_done' = IF PcNoNorm(g, 1) = "done"
                        THEN task_done \cup {t} ELSE task_done
        /\ UNCHANGED <<ap_pc, ap_n_samples, params_shp, n_shp_params,
                       idx_shp, X_new, X_writes>>
        /\ UNCHANGED gen_vars

\* lines 256-266: the next shapelet of the non-normalised subset, matched
\* against the view as it is
EvalNoNorm(i_sample, g) ==
    LET t == <<i_sample, g>>
    IN  /\ ap_pc = "run"
        /\ t \in Tasks
        /\ task_pc[t] = "no_norm"
        /\ LET i_shp == IdxNoNorm(g)[i_idx[t]]
           IN  /\ X_new' = WriteFeatures(X_new, i_sample, i_shp,
                             ApplyOneShapelet(i_sample, i_shp,
                                              ViewOf(strides[t])))
               /\ X_writes' = LogWrite(X_writes, i_sample, i_shp, t)
        /\ i_idx' = [i_idx EXCEPT ![t] = @ + 1]
        /\ task_pc' = [task_pc EXCEPT ![t] = PcNoNorm(g, i_idx[t] + 1)]
        /\ task_done' = IF PcNoNorm(g, i_idx[t] + 1) = "done"
                        THEN task_done \cup {t} ELSE task_done
        /\ UNCHANGED <<ap_pc, ap_n_samples, params_shp, n_shp_params,
                       idx_shp, strides>>
        /\ UNCHANGED gen_vars

\* lines 268-275: the view normalised in place, window by window
NormalizeView(i_sample, g) ==
    LET t == <<i_sample, g>>
    IN  /\ ap_pc = "run"
        /\ t \in Tasks
        /\ task_pc[t] = "normalize"
        /\ strides' = [strides EXCEPT ![t] = NormalizeStrides(@, t)]
        /\ i_idx' = [i_idx EXCEPT ![t] = 1]
        /\ task_pc' = [task_pc EXCEPT ![t] = PcNorm(g, 1)]
        /\ task_done' = IF PcNorm(g, 1) = "done"
                        THEN task_done \cup {t} ELSE task_done
        /\ UNCHANGED <<ap_pc, ap_n_samples, params_shp, n_shp_params,
                       idx_shp, X_new, X_writes>>
        /\ UNCHANGED gen_vars

\* lines 277-287: the next shapelet of the normalised subset, matched
\* against the view as it is
EvalNorm(i_sample, g) ==
    LET t == <<i_sample, g>>
    IN  /\ ap_pc = "run"
        /\ t \in Tasks
        /\ task_pc[t] = "norm"
        /\ LET i_shp == IdxNorm(g)[i_idx[t]]
           IN  /\ X_new' = WriteFeatures(X_new, i_sample, i_shp,
                             ApplyOneShapelet(i_sample, i_shp,
                                              ViewOf(strides[t])))
               /\ X_writes' = LogWrite(X_writes, i_sample, i_shp, t)
        /\ i_idx' = [i_idx EXCEPT ![t] = @ + 1]
        /\ task_pc' = [task_pc EXCEPT ![t] = PcNorm(g, i_idx[t] + 1)]
        /\ task_done' = IF PcNorm(g, i_idx[t] + 1) = "done"
                        THEN task_done \cup {t} ELSE task_done
        /\ UNCHANGED <<ap_pc, ap_n_samples, params_shp, n_shp_params,
                       idx_shp, strides>>
        /\ UNCHANGED gen_vars

\* line 288
ApplyReturn ==
    /\ ap_pc = "run"
    /\ task_done = Tasks
    /\ ap_pc' = "done"
    /\ UNCHANGED <<ap_n_samples, params_shp, n_shp_params, idx_shp, X_new,
                   task_done, task_pc, i_idx, strides, X_writes>>
    /\ UNCHANGED gen_vars

\* arguments of the generate call whose result is handed to apply: up to
\* two shapelets of one length with either normalisation mode, or two
\* non-normalised shapelets of either length
ApplyConfigs ==
    [T : {3}, n_samples : {1}, n_features : {1}, n_shapelets : 0..2,
     sizes : {{2}}, alpha : {<<1, 1>>}, p_norm : {<<1, 2>>},
     use_phase : {FALSE}, max_channels : {1}, prime_scheme : {FALSE}]
    \cup
    [T : {4}, n_samples : {1}, n_features : {1}, n_shapelets : {2},
     sizes : {{2, 3}}, alpha : {<<1, 1>>}, p_norm : {<<0, 1>>},
     use_phase : {FALSE}, max_channels : {1}, prime_scheme : {FALSE}]

InitApply ==
    /\ \E c \in ApplyConfigs : Entry(c)
    /\ rng = NoRng(FALSE)
    /\ calls = 1
    /\ first = <<>>
    /\ ApplyIdle

NextApply ==
    \/ Next
    \/ ApplyStart
    \/ \E i_sample \in 1..MaxSamples : \E g \in 1..MaxShapelets :
            \/ GenerateStrides(i_sample, g)
            \/ EvalNoNorm(i_sample, g)
            \/ NormalizeView(i_sample, g)
            \/ EvalNorm(i_sample, g)
    \/ ApplyReturn

SpecApply == InitApply /\ [][NextApply]_vars

\* C9: the matrix apply returns has exactly n_series rows and 3*n_shapelets
\* columns, also for an empty shapelet set (no column) and for one series
\* (one row).
C9_OutputShape ==
    ap_pc = "done" =>
        /\ X_new.shape = <<ap_n_samples, 3 * NShp>>
        /\ Len(X_new.data) = ap_n_samples
        /\ \A r \in 1..ap_n_samples : Len(X_new.data[r]) = 3 * NShp
        /\ NShp = 0 => X_new.shape[2] = 0
        /\ ap_n_samples = 1 => X_new.shape[1] = 1

\* apply has returned a matrix for two series and two shapelets of different
\* parameter groups, every cell of it written
C9_Witness ==
    /\ ap_pc = "done"
    /\ ap_n_samples = 2 /\ NShp = 2 /\ Len(params_shp) = 2
    /\ \A r \in 1..2 : \A c \in 1..6 : X_new.data[r][c] # ZeroFeature

-----------------------------------------------------------------------------
(* Properties of the parallel iterations of apply *)

\* the parameter groups that hold shapelet i
GroupsOf(i) ==
    {g \in 1..Len(params_shp) : i \in Range(GroupShapelets(g))}

\* C11: grouping by (length, dilation) and splitting by normalisation puts
\* every shapelet in exactly one subset of exactly one group; no cell of the
\* feature matrix is ever assigned twice, whatever the interleaving of the
\* (series, group) iterations, and a cell of row s is only assigned by an
\* iteration of series s; when apply returns, the three cells of shapelet i
\* in row s have been assigned exactly once, by the iteration of series s
\* and of the group of i.
C11_WriteOnce ==
    ap_pc \in {"run", "done"} =>
        /\ \A i \in 1..NShp :
                /\ Cardinality({k \in DOMAIN idx_shp : idx_shp[k] = i}) = 1
                /\ Cardinality(GroupsOf(i)) = 1
        /\ \A g \in 1..Len(params_shp) :
                /\ Range(IdxNoNorm(g)) \cap Range(IdxNorm(g)) = {}
                /\ Range(IdxNoNorm(g)) \cup Range(IdxNorm(g))
                        = Range(GroupShapelets(g))
                /\ Len(IdxNoNorm(g)) + Len(IdxNorm(g))
                        = Len(GroupShapelets(g))
        /\ \A r \in 1..ap_n_samples : \A c \in 1..(3 * NShp) :
                /\ Len(X_writes[r][c]) <= 1
                /\ \A k \in DOMAIN X_writes[r][c] : X_writes[r][c][k][1] = r
        /\ ap_pc = "done" =>
                \A r \in 1..ap_n_samples : \A i \in 1..NShp :
                    \A c \in (3 * (i - 1) + 1)..(3 * i) :
                        /\ Len(X_writes[r][c]) = 1
                        /\ X_writes[r][c][1][2] \in GroupsOf(i)

\* two iterations of one series are under way together: the one of a group
\* has assigned the block of its shapelet, the one of another group has its
\* view and has not assigned anything yet
C11_Witness ==
    /\ ap_pc = "run"
    /\ NShp = 2
    /\ \E r \in 1..ap_n_samples : \E g1, g2 \in 1..Len(params_shp) :
        /\ g1 # g2
        /\ task_pc[<<r, g1>>] \in {"no_norm", "normalize", "norm"}
        /\ task_pc[<<r, g2>>] = "done"
        /\ \E i \in 1..NShp :
            /\ \A c \in (3 * (i - 1) + 1)..(3 * i) :
                    X_writes[r][c] = <<(<<r, g2>>)>>
            /\ \A j \in (1..NShp) \ {i} :
                    \A c \in (3 * (j - 1) + 1)..(3 * j) : X_writes[r][c] = <<>>

\* C13: the view of a (series, group) iteration is normalised at most once,
\* only if the group has a normalised shapelet and only once every
\* non-normalised shapelet of the group has its features in the row; every
\* feature of a non-normalised shapelet comes from a raw view and every
\* feature of a normalised shapelet from a view normalised once; a view is
\* the view of its own series and pair and is written by its own iteration
\* only.
C13_NormalizeOnce ==
    ap_pc \in {"run", "done"} =>
        /\ \A t \in Tasks :
              strides[t] # <<>> =>
                /\ strides[t].normalized <= 1
                /\ strides[t].normalized = 1 =>
                      /\ \E i \in Range(GroupShapelets(t[2])) : normalize[i]
                      /\ \A i \in Range(GroupShapelets(t[2])) :
                            ~normalize[i] =>
                                \A c \in (3 * (i - 1) + 1)..(3 * i) :
                                    X_new.data[t[1]][c] # ZeroFeature
                /\ strides[t].by \subseteq {t}
                /\ strides[t].of = <<t[1], params_shp[t[2]][1],
                                     params_shp[t[2]][2]>>
        /\ \A r \in 1..ap_n_samples : \A i \in 1..NShp :
              \A c \in (3 * (i - 1) + 1)..(3 * i) :
                  X_new.data[r][c] # ZeroFeature =>
                      /\ X_new.data[r][c][2] = r
                      /\ X_new.data[r][c][3] = i
                      /\ X_new.data[r][c][4] =
                            IF normalize[i] THEN "norm" ELSE "raw"

\* a group holds a non-normalised and a normalised shapelet; the iteration
\* of one series has evaluated the first on the raw view, normalised the
\* view and evaluated the second, while the iteration of another series for
\* the same group still works on its raw view
C13_Witness ==
    /\ ap_pc = "run"
    /\ NShp = 2 /\ Len(params_shp) = 1
    /\ \E i, j \in 1..NShp : \E r1, r2 \in 1..ap_n_samples :
        /\ ~normalize[i] /\ normalize[j]
        /\ r1 # r2
        /\ task_pc[<<r1, 1>>] = "done"
        /\ strides[<<r1, 1>>].normalized = 1
        /\ X_new.data[r1][3 * (i - 1) + 1] = <<"min", r1, i, "raw">>
        /\ X_new.data[r1][3 * (j - 1) + 1] = <<"min", r1, j, "norm">>
        /\ task_pc[<<r2, 1>>] = "no_norm"
        /\ strides[<<r2, 1>>].normalized = 0

=============================================================================
